---- MODULE Spec2Model ----
(***************************************************************************)
(* Model of src/Dashboard_home.py: R-peak detection (detecteer_Rpieken),   *)
(* the data pipeline of initialize_data and its caller homepage.           *)
(*                                                                         *)
(* Numbers that pandas holds as floats are held as fractions [n, d]:       *)
(* d > 0 is the value n/d, [n |-> 1, d |-> 0] is +inf and                  *)
(* [n |-> 0, d |-> 0] is NaN.  A missing category of pd.cut is "NaN".      *)
(***************************************************************************)
EXTENDS Integers, Sequences, FiniteSets, TLC

VARIABLES session_state, call, pk_df, pk_drempel, pk_out

vars == <<session_state, call, pk_df, pk_drempel, pk_out>>

(* ------------------------------ bounds -------------------------------- *)

\* longest CSV (number of rows) handed to initialize_data
MaxLen == 7

\* longest ECG column handed to detecteer_Rpieken on its own
MaxPkLen == 6

(* ------------------------- program constants -------------------------- *)

\* line 85: raw ticks per second
TicksPerSecond == 1024

\* lines 55-62 (hond_uitlaten is defined but not part of the list)
intervallen == <<0, 120, 240, 360, 2160, 3360, 4020, 6000, 6480, 6780, 7320>>

\* lines 65-68
activiteiten ==
  <<"zitten", "lopen", "schoenen aandoen", "lopen", "zitten",
    "lopen", "zitten", "lopen", "traplopen", "zitten">>

\* line 52: 0.6
rpieken_drempel == [n |-> 3, d |-> 5]

(* ------------------------------ floats -------------------------------- *)

NaN == [n |-> 0, d |-> 0]

Inf == [n |-> 1, d |-> 0]

IsNaN(q) == q.d = 0 /\ q.n = 0

\* a - b on finite values with the same denominator (Series.diff)
QSub(a, b) == [n |-> a.n - b.n, d |-> a.d]

\* 60 / q as numpy divides: 60/0 is inf, 60/NaN is NaN
SixtyOver(q) ==
  IF IsNaN(q) THEN NaN
  ELSE IF q.n = 0 THEN Inf
  ELSE IF q.n > 0 THEN [n |-> 60 * q.d, d |-> q.n]
  ELSE [n |-> 0 - 60 * q.d, d |-> 0 - q.n]

\* mean of two finite values with the same denominator (rolling(2).mean())
QMean2(a, b) == [n |-> a.n + b.n, d |-> 2 * a.d]

(* --------------------------- find_peaks ------------------------------- *)

RECURSIVE PlateauEnd(_, _, _)
\* scipy's inner loop: the first index after i whose value differs from x[i],
\* stopping at the last sample
PlateauEnd(x, i, ahead) ==
  IF ahead < Len(x) /\ x[ahead] = x[i] THEN PlateauEnd(x, i, ahead + 1) ELSE ahead

RECURSIVE LocalMaximaFrom(_, _)
\* scipy's scan for local maxima from index i on (indices here are 1-based):
\* a rise into x[i], then a plateau, then a fall; the middle of the plateau
\* (rounded down) is the peak.  The first and the last sample are never peaks.
LocalMaximaFrom(x, i) ==
  IF i >= Len(x) THEN <<>>
  ELSE IF x[i - 1] < x[i]
       THEN LET ahead == PlateauEnd(x, i, i + 1)
            IN  IF x[ahead] < x[i]
                THEN <<(i + (ahead - 1)) \div 2>> \o LocalMaximaFrom(x, ahead + 1)
                ELSE LocalMaximaFrom(x, i + 1)
       ELSE LocalMaximaFrom(x, i + 1)

\* faulty variant: reports every sample of a plateau instead of its middle
LocalMaxima_everysample(x) ==
  LET keep(i) == /\ 1 < i /\ i < Len(x)
                 /\ \E l \in 1..(i - 1) : /\ x[l] < x[i]
                                          /\ \A k \in (l + 1)..i : x[k] = x[i]
                 /\ \E r \in (i + 1)..Len(x) : /\ x[r] < x[i]
                                               /\ \A k \in i..(r - 1) : x[k] = x[i]
      F[i \in 0..Len(x)] == IF i = 0 THEN <<>>
                            ELSE IF keep(i) THEN Append(F[i - 1], i) ELSE F[i - 1]
  IN  F[Len(x)]

LocalMaxima(x) == LocalMaximaFrom(x, 2)

\* faulty variant: a peak must exceed the height, not reach it
HeightOk_strict(v, drempelwaarde) == v * drempelwaarde.d > drempelwaarde.n

\* find_peaks(height=h): the peak's value is at least h
HeightOk(v, drempelwaarde) == v * drempelwaarde.d >= drempelwaarde.n

\* find_peaks(x, height=drempelwaarde)[0], 1-based positions
find_peaks(x, drempelwaarde) ==
  SelectSeq(LocalMaxima(x), LAMBDA i : HeightOk(x[i], drempelwaarde))

(* ------------------------ detecteer_Rpieken --------------------------- *)

RECURSIVE SeqMax(_)
SeqMax(x) ==
  IF Len(x) = 1 THEN x[1]
  ELSE LET m == SeqMax(Tail(x)) IN IF x[1] >= m THEN x[1] ELSE m

ColumnECG(rows) == [i \in 1..Len(rows) |-> rows[i].ECG]

\* Outcome of detecteer_Rpieken(df, pct_drempel): the exception it raises, or
\* the rows df.iloc[pieken] (each row keeps all its columns and its index).
detecteer_Rpieken(df, pct_drempel) ==
  IF "ECG" \notin df.columns THEN [raised |-> "KeyError", rows |-> <<>>]
  ELSE IF df.rows = <<>> THEN [raised |-> "ValueError", rows |-> <<>>]
  ELSE LET x == ColumnECG(df.rows)
           max_ecg == SeqMax(x)
           drempelwaarde == [n |-> pct_drempel.n * max_ecg, d |-> pct_drempel.d]
           pieken == find_peaks(x, drempelwaarde)
       IN  [raised |-> "no", rows |-> [k \in 1..Len(pieken) |-> df.rows[pieken[k]]]]

(* ------------------------------ inputs -------------------------------- *)

ECGValues == {0, 1}

\* first raw tick of a recording
TickStarts == {4096}

\* raw ticks between consecutive rows: duplicate ticks, 120 s and 1220 s
TickSteps == {0, 120 * TicksPerSecond, 1220 * TicksPerSecond}

SeqsUpTo(S, n) == UNION {[1..k -> S] : k \in 0..n}

\* the rows of a CSV with the columns time and ECG, time non-decreasing
RowsOf(ecg, start, step) ==
  [i \in 1..Len(ecg) |-> [time |-> start + (i - 1) * step, ECG |-> ecg[i]]]

GoodFiles ==
  {[readable |-> TRUE, columns |-> {"time", "ECG"}, rows |-> RowsOf(ecg, t0, st)] :
     ecg \in SeqsUpTo(ECGValues, MaxLen), t0 \in TickStarts, st \in TickSteps}

\* files that cannot be parsed, or that lack a required column (columns says
\* which fields of a row the CSV really has)
BadFiles ==
  {[readable |-> r, columns |-> c, rows |-> IF r THEN RowsOf(ecg, 4096, 0) ELSE <<>>] :
     r \in BOOLEAN, c \in {{"time"}, {"ECG"}, {}}, ecg \in SeqsUpTo(ECGValues, 1)}

Files == GoodFiles \cup BadFiles

\* no file was opened
NoFile == [readable |-> FALSE, columns |-> {"-"}, rows |-> <<>>]

(* ----------------------------- pipeline ------------------------------- *)

NoDf == [columns |-> {}, rows |-> <<>>]

\* pd.cut(t, bins, labels, ordered=False) with the defaults right=True,
\* include_lowest=False: bin i is (bins[i], bins[i+1]], anything else is NaN
pd_cut(t, bins, labels) ==
  IF \E i \in 1..Len(labels) : bins[i] * t.d < t.n /\ t.n <= bins[i + 1] * t.d
  THEN labels[CHOOSE i \in 1..Len(labels) :
                bins[i] * t.d < t.n /\ t.n <= bins[i + 1] * t.d]
  ELSE "NaN"

\* lines 85-87: the columns timestamp and activiteit; index is the row label
\* pandas gives each row (0, 1, 2, ...)
add_timestamp_activiteit(rows) ==
  [i \in 1..Len(rows) |->
     LET ts == [n |-> rows[i].time - rows[1].time, d |-> TicksPerSecond]
     IN  [index |-> i - 1, time |-> rows[i].time, ECG |-> rows[i].ECG,
          timestamp |-> ts,
          activiteit |-> pd_cut(ts, intervallen, activiteiten)]]

\* lines 91-93 for the k-th detected peak
BeatRow(pk, k) ==
  LET rr == IF k = 1 THEN NaN ELSE QSub(pk[k].timestamp, pk[k - 1].timestamp)
  IN  [index |-> pk[k].index, time |-> pk[k].time, ECG |-> pk[k].ECG,
       timestamp |-> pk[k].timestamp, activiteit |-> pk[k].activiteit,
       rr |-> rr,
       bpm |-> SixtyOver(rr),
       gemiddelde_tijd |-> IF k = 1 THEN NaN
                           ELSE QMean2(pk[k].timestamp, pk[k - 1].timestamp)]

\* faulty variant: line 94 forgotten, the first peak stays in the table
beat_table_keepfirst(pk) == [k \in 1..Len(pk) |-> BeatRow(pk, k)]

\* faulty variant: the beats are labelled again, at the middle of the interval
beat_table_relabel(pk) ==
  LET all == [k \in 1..Len(pk) |-> BeatRow(pk, k)]
      kept == SelectSeq(all, LAMBDA b : ~IsNaN(b.rr))
  IN  [k \in 1..Len(kept) |->
         [kept[k] EXCEPT !.activiteit =
            pd_cut(kept[k].gemiddelde_tijd, intervallen, activiteiten)]]

\* lines 91-94: rr, bpm, gemiddelde_tijd, then the rows whose rr is NaN go
beat_table(pk) ==
  LET all == [k \in 1..Len(pk) |-> BeatRow(pk, k)]
  IN  SelectSeq(all, LAMBDA b : ~IsNaN(b.rr))

DerivedColumns == {"timestamp", "activiteit"}

BeatColumns == {"rr", "bpm", "gemiddelde_tijd"}

\* lines 38-76: the keys set before the try block
ConfigKeys ==
  {"start_meting", "start_lopen", "schoenen_aandoen", "lopen", "hond_uitlaten",
   "start_herstellen", "weer_lopen", "zitten", "alweer_lopen", "start_traplopen",
   "zittend_herstellen", "einde_meting", "rpieken_drempel", "intervallen",
   "activiteiten", "activiteiten_kleuren"}

\* lines 78-104 on the file f that pd.read_csv opens; ss already has the
\* configuration keys.  An exception anywhere in the try block returns False.
try_block(f, ss) ==
  LET failed == [ss |-> ss, ret |-> "False", csv |-> f]
  IN  IF ~f.readable THEN failed
      ELSE IF "time" \notin f.columns THEN failed
      ELSE IF f.rows = <<>> THEN failed
      ELSE LET df_ecg == [columns |-> f.columns \cup DerivedColumns,
                          rows |-> add_timestamp_activiteit(f.rows)]
               pieken == detecteer_Rpieken(df_ecg, rpieken_drempel)
           IN  IF pieken.raised # "no" THEN failed
               ELSE [ss |-> [keys |-> ss.keys \cup
                                        {"df_ecg", "df_ecg_pieken", "data_initialized"},
                             df_ecg |-> df_ecg,
                             df_ecg_pieken |->
                               [columns |-> df_ecg.columns \cup BeatColumns,
                                rows |-> beat_table(pieken.rows)]],
                     ret |-> "True", csv |-> f]

\* faulty variant: df_ecg is stored as soon as it is built, before peak detection
initialize_data_storeearly(f, ss) ==
  IF "data_initialized" \in ss.keys
  THEN [ss |-> ss, ret |-> "None", csv |-> NoFile]
  ELSE LET cfg == [ss EXCEPT !.keys = @ \cup ConfigKeys]
           r == try_block(f, cfg)
       IN  IF r.ret = "False" /\ f.readable /\ "time" \in f.columns /\ f.rows # <<>>
           THEN [r EXCEPT !.ss.keys = @ \cup {"df_ecg"},
                          !.ss.df_ecg = [columns |-> f.columns \cup DerivedColumns,
                                         rows |-> add_timestamp_activiteit(f.rows)]]
           ELSE r

\* initialize_data, where f is the file it would read: the uploaded file, or
\* "data Sanne.txt" when uploaded_file is None.  ret is the returned value
\* ("None" when the function falls off its end), csv the file handed to
\* pd.read_csv (NoFile when the function reads nothing).
initialize_data(f, ss) ==
  IF "data_initialized" \in ss.keys
  THEN [ss |-> ss, ret |-> "None", csv |-> NoFile]
  ELSE try_block(f, [ss EXCEPT !.keys = @ \cup ConfigKeys])

(* ----------------------------- homepage ------------------------------- *)

\* lines 119-128: the age widget's key
WithUserAge(ss) == [ss EXCEPT !.keys = @ \cup {"user_age"}]

\* lines 140-144: a file is in the upload widget
HomepageUpload ==
  \E f \in Files :
    LET was == "data_initialized" \in session_state.keys
        r == initialize_data(f, WithUserAge(session_state))
    IN  /\ session_state' = r.ss
        /\ call' = [uploaded |-> TRUE, was_initialized |-> was, ret |-> r.ret,
                    csv |-> r.csv,
                    message |-> IF r.ret = "True" THEN "success" ELSE "error"]
        /\ UNCHANGED <<pk_df, pk_drempel, pk_out>>

\* lines 145-147: no upload, initialize_data() reads "data Sanne.txt"
HomepageDefault ==
  \E f \in Files :
    LET was == "data_initialized" \in session_state.keys
        r == initialize_data(f, WithUserAge(session_state))
    IN  /\ session_state' = r.ss
        /\ call' = [uploaded |-> FALSE, was_initialized |-> was, ret |-> r.ret,
                    csv |-> r.csv,
                    message |-> IF r.ret = "True" THEN "info" ELSE "none"]
        /\ UNCHANGED <<pk_df, pk_drempel, pk_out>>

NoCall ==
  [uploaded |-> FALSE, was_initialized |-> FALSE, ret |-> "-", csv |-> NoFile,
   message |-> "-"]

NoPk == [raised |-> "-", rows |-> <<>>]

Init ==
  /\ session_state = [keys |-> {}, df_ecg |-> NoDf, df_ecg_pieken |-> NoDf]
  /\ call = NoCall
  /\ pk_df = NoDf
  /\ pk_drempel = rpieken_drempel
  /\ pk_out = NoPk

Next == HomepageUpload \/ HomepageDefault

Spec == Init /\ [][Next]_vars

(* ------------------- detecteer_Rpieken on its own --------------------- *)

PkECGValues == {-2, -1, 0, 1}

\* pct_drempel: 0, 0.6 and 1
PkDrempels == {[n |-> k, d |-> 5] : k \in {0, 3, 5}}

PkInputs ==
  {[columns |-> {"ECG"},
    rows |-> [i \in 1..Len(ecg) |-> [index |-> i - 1, ECG |-> ecg[i]]]] :
     ecg \in SeqsUpTo(PkECGValues, MaxPkLen)}

InitPeaks ==
  /\ session_state = [keys |-> {}, df_ecg |-> NoDf, df_ecg_pieken |-> NoDf]
  /\ call = NoCall
  /\ pk_df \in PkInputs
  /\ pk_drempel \in PkDrempels
  /\ pk_out = NoPk

\* one call detecteer_Rpieken(pk_df, pk_drempel)
DetectPeaks ==
  /\ pk_out = NoPk
  /\ pk_out' = detecteer_Rpieken(pk_df, pk_drempel)
  /\ UNCHANGED <<session_state, call, pk_df, pk_drempel>>

NextPeaks == DetectPeaks

SpecPeaks == InitPeaks /\ [][NextPeaks]_vars

(* ---------------------- peak detection: claims ------------------------ *)

PkX == ColumnECG(pk_df.rows)

PkGlobalMax == CHOOSE m \in {PkX[i] : i \in 1..Len(PkX)} : \A i \in 1..Len(PkX) : PkX[i] <= m

\* samples l..r form a local maximum: equal values, strictly lower on both sides
PkPlateau(l, r) ==
  /\ 1 < l /\ l <= r /\ r < Len(PkX)
  /\ \A k \in l..r : PkX[k] = PkX[l]
  /\ PkX[l - 1] < PkX[l]
  /\ PkX[r + 1] < PkX[r]

\* the value v is at least pk_drempel * max(ECG)
PkAtLeastThreshold(v) == v * pk_drempel.d >= pk_drempel.n * PkGlobalMax

\* 1-based positions of the returned rows
PkReturned == [k \in 1..Len(pk_out.rows) |-> pk_out.rows[k].index + 1]

PkReturnedIn(l, r) == {k \in 1..Len(PkReturned) : l <= PkReturned[k] /\ PkReturned[k] <= r}

PkSpans == {lr \in (1..Len(PkX)) \X (1..Len(PkX)) : PkPlateau(lr[1], lr[2])}

\* C8: detecteer_Rpieken returns rows of df in ascending position order; every
\* returned row lies in a local maximum whose value is at least
\* pct_drempel * max(ECG); and every such local maximum, a flat plateau
\* included, contributes exactly one row.
C8_PeaksAreQualifyingLocalMaxima ==
  pk_out.raised = "no" =>
    /\ \A k \in 1..Len(PkReturned) :
         /\ PkReturned[k] \in 1..Len(PkX)
         /\ pk_out.rows[k] = pk_df.rows[PkReturned[k]]
         /\ k > 1 => PkReturned[k - 1] < PkReturned[k]
         /\ PkAtLeastThreshold(PkX[PkReturned[k]])
         /\ \E lr \in PkSpans : lr[1] <= PkReturned[k] /\ PkReturned[k] <= lr[2]
    /\ \A lr \in PkSpans :
         PkAtLeastThreshold(PkX[lr[1]]) => Cardinality(PkReturnedIn(lr[1], lr[2])) = 1

\* a plateau of two samples that qualifies, next to a local maximum that is
\* below the threshold and is not returned
C8_Witness ==
  /\ pk_out.raised = "no"
  /\ \E lr \in PkSpans : lr[1] < lr[2] /\ Cardinality(PkReturnedIn(lr[1], lr[2])) = 1
  /\ \E lr \in PkSpans : ~PkAtLeastThreshold(PkX[lr[1]]) /\ PkReturnedIn(lr[1], lr[2]) = {}

\* C9 as amended: with pct_drempel = 0 the result has exactly one row for every
\* local maximum whose ECG value is >= 0 (and none for a negative one); with
\* pct_drempel = 1 every returned row has the global maximum as its ECG value.
C9_ZeroAndFullThreshold ==
  pk_out.raised = "no" =>
    /\ pk_drempel.n = 0 =>
         \A lr \in PkSpans :
           Cardinality(PkReturnedIn(lr[1], lr[2])) = IF PkX[lr[1]] >= 0 THEN 1 ELSE 0
    /\ pk_drempel.n = pk_drempel.d =>
         \A k \in 1..Len(PkReturned) : PkX[PkReturned[k]] = PkGlobalMax

\* pct_drempel = 0 on a series with a local maximum of value 0 and a negative one
C9_Witness ==
  /\ pk_out.raised = "no"
  /\ pk_drempel.n = 0
  /\ \E lr \in PkSpans : PkX[lr[1]] = 0 /\ PkReturnedIn(lr[1], lr[2]) # {}
  /\ \E lr \in PkSpans : PkX[lr[1]] < 0 /\ PkReturnedIn(lr[1], lr[2]) = {}

\* C9 as stated: with pct_drempel = 0 every local maximum is returned, also of
\* a series with negative values; with pct_drempel = 1 only global maxima are.
C9_Original ==
  pk_out.raised = "no" =>
    /\ pk_drempel.n = 0 =>
         \A lr \in PkSpans : PkReturnedIn(lr[1], lr[2]) # {}
    /\ pk_drempel.n = pk_drempel.d =>
         \A k \in 1..Len(PkReturned) : PkX[PkReturned[k]] = PkGlobalMax

(* ------------------------ pipeline: claims ---------------------------- *)

Stored == "data_initialized" \in session_state.keys

Samples == session_state.df_ecg.rows

Beats == session_state.df_ecg_pieken.rows

FirstBoundary == intervallen[1]

LastBoundary == intervallen[Len(intervallen)]

\* the last call ran the try block on a CSV that has both columns
RanOnWellFormed ==
  /\ call.ret # "-"
  /\ ~call.was_initialized
  /\ call.csv.readable
  /\ {"time", "ECG"} \subseteq call.csv.columns

\* C1 as stated: every stored sample with intervallen[0] <= t < intervallen[last]
\* carries the label of the interval i with intervallen[i] <= t < intervallen[i+1].
C1_LeftClosedLabels ==
  \A s \in 1..Len(Samples) :
    LET t == Samples[s].timestamp
    IN  (FirstBoundary * t.d <= t.n /\ t.n < LastBoundary * t.d) =>
          \E i \in 1..Len(activiteiten) :
            /\ intervallen[i] * t.d <= t.n /\ t.n < intervallen[i + 1] * t.d
            /\ Samples[s].activiteit = activiteiten[i]

\* C2 as stated: every stored sample with t < intervallen[0] or
\* t >= intervallen[last] is unlabeled.
C2_OutOfRangeUnlabeled ==
  \A s \in 1..Len(Samples) :
    LET t == Samples[s].timestamp
    IN  (t.n < FirstBoundary * t.d \/ t.n >= LastBoundary * t.d) =>
          Samples[s].activiteit = "NaN"

\* C3 as stated: every beat of the stored beat table has rr > 0 and
\* bpm = 60 / rr.
C3_PositiveRR ==
  \A k \in 1..Len(Beats) :
    /\ Beats[k].rr.d > 0 /\ Beats[k].rr.n > 0
    /\ Beats[k].bpm.d > 0
    /\ Beats[k].bpm.n * Beats[k].rr.n = 60 * Beats[k].rr.d * Beats[k].bpm.d

\* C4 as stated: a call that reads a table with the required columns and no
\* rows returns True and stores an empty beat table.
C4_EmptyInputSucceeds ==
  (RanOnWellFormed /\ call.csv.rows = <<>>) =>
    /\ call.ret = "True"
    /\ Stored
    /\ Beats = <<>>

\* C5 as stated: a homepage call with an uploaded file, made after an earlier
\* run completed, reports success and leaves in df_ecg the rows of the file
\* it was given.
C5_NewUploadReplaces ==
  (call.uploaded /\ call.was_initialized) =>
    /\ call.ret = "True"
    /\ call.message = "success"
    /\ call.csv # NoFile
    /\ Len(Samples) = Len(call.csv.rows)
    /\ \A i \in 1..Len(Samples) :
         Samples[i].time = call.csv.rows[i].time /\ Samples[i].ECG = call.csv.rows[i].ECG

\* the peaks detected in the stored sample table
DetectedPeaks == detecteer_Rpieken(session_state.df_ecg, rpieken_drempel).rows

\* C6: the stored beat table has one row for each detected peak after the
\* first, in order, with rr and gemiddelde_tijd taken against the peak detected
\* immediately before it; the first detected peak is not in it; and a run on a
\* non-empty table succeeds also when fewer than two peaks are detected, with
\* an empty beat table.
C6_BeatsFromConsecutivePeaks ==
  /\ Stored =>
       /\ Len(Beats) = IF DetectedPeaks = <<>> THEN 0 ELSE Len(DetectedPeaks) - 1
       /\ \A k \in 1..Len(Beats) :
            LET cur == DetectedPeaks[k + 1]
                prev == DetectedPeaks[k]
            IN  /\ Beats[k].index = cur.index
                /\ Beats[k].index # DetectedPeaks[1].index
                /\ Beats[k].timestamp = cur.timestamp
                /\ Beats[k].rr.d = TicksPerSecond
                /\ Beats[k].rr.n = cur.timestamp.n - prev.timestamp.n
                /\ Beats[k].gemiddelde_tijd.d = 2 * TicksPerSecond
                /\ Beats[k].gemiddelde_tijd.n = cur.timestamp.n + prev.timestamp.n
       /\ Len(DetectedPeaks) < 2 => Beats = <<>>
  /\ (RanOnWellFormed /\ call.csv.rows # <<>>) => (call.ret = "True" /\ Stored)

\* three detected peaks at different times give two beats
C6_Witness ==
  /\ Stored
  /\ call.ret = "True"
  /\ Len(DetectedPeaks) = 3
  /\ Len(Beats) = 2
  /\ Beats[2].rr.n > 0
  /\ Beats[2].rr.n = DetectedPeaks[3].timestamp.n - DetectedPeaks[2].timestamp.n

\* a run whose table has rows but no detected peak
C6_WitnessNoPeaks ==
  /\ Stored
  /\ call.ret = "True"
  /\ Len(Samples) >= 3
  /\ DetectedPeaks = <<>>
  /\ Beats = <<>>

\* the file the last call tried to read cannot be processed
FatalInput ==
  \/ ~call.csv.readable
  \/ "time" \notin call.csv.columns
  \/ "ECG" \notin call.csv.columns

\* C7: a call that fails returns False and leaves none of df_ecg,
\* df_ecg_pieken, data_initialized in the session; a call on an unreadable file
\* or on one without a required column fails; and whenever one of the three
\* keys is in the session all three are, the beat rows being rows of df_ecg.
C7_NoPartialArtifacts ==
  /\ call.ret = "False" =>
       session_state.keys \cap {"df_ecg", "df_ecg_pieken", "data_initialized"} = {}
  /\ (call.ret # "-" /\ ~call.was_initialized /\ FatalInput) => call.ret = "False"
  /\ (session_state.keys \cap {"df_ecg", "df_ecg_pieken", "data_initialized"} # {}) =>
       /\ {"df_ecg", "df_ecg_pieken", "data_initialized"} \subseteq session_state.keys
       /\ \A k \in 1..Len(Beats) :
            \E i \in 1..Len(Samples) :
              /\ Samples[i].index = Beats[k].index
              /\ Samples[i].time = Beats[k].time
              /\ Samples[i].ECG = Beats[k].ECG
              /\ Samples[i].timestamp = Beats[k].timestamp

\* a call that fails in peak detection, after the sample table was built
C7_Witness ==
  /\ call.ret = "False"
  /\ call.csv.readable
  /\ "time" \in call.csv.columns
  /\ "ECG" \notin call.csv.columns
  /\ call.csv.rows # <<>>

\* C10: every beat of the stored beat table carries the activiteit of the
\* sample of df_ecg with the same index.
C10_BeatLabelIsSampleLabel ==
  Stored =>
    \A k \in 1..Len(Beats) :
      \E i \in 1..Len(Samples) :
        /\ Samples[i].index = Beats[k].index
        /\ Samples[i].activiteit = Beats[k].activiteit

\* two beats in different activities
C10_Witness ==
  /\ Stored
  /\ Len(Beats) >= 2
  /\ Beats[1].activiteit # "NaN"
  /\ Beats[2].activiteit # "NaN"
  /\ Beats[1].activiteit # Beats[2].activiteit

====
